---- MODULE Spec2Model ----
(***************************************************************************)
(* Anchor / Portal protocol of ref-portals: the threaded module (sync.rs)  *)
(* and the single-threaded module (rc.rs).                                 *)
(*                                                                         *)
(* One Slot is modelled: the Arc/Rc allocation an anchor creates, with its *)
(* strong and weak counts, the lock (RwLock, Mutex or RefCell) around the  *)
(* captured pointer and the poison flag.  The anchor type is chosen in     *)
(* Init.  std's primitives are modelled by their documented behaviour:     *)
(*  - Arc::try_unwrap succeeds iff the strong count is 1;                  *)
(*  - Weak::upgrade succeeds iff the strong count is not 0;                 *)
(*  - RwLock/Mutex block while the lock is held in a conflicting mode      *)
(*    (also when the holder is the calling thread), and a write or mutex   *)
(*    guard poisons the lock when it is dropped by a panicking thread      *)
(*    that was not panicking when it acquired the guard;                   *)
(*  - RefCell::borrow / borrow_mut panic on a conflicting borrow.          *)
(***************************************************************************)
EXTENDS Integers, FiniteSets, Bags, TLC

\* ---- bounds of the model
MaxPortals == 2
MaxWeak == 2
MaxGuards == 2
NumThreads == 2

VARIABLES
    kind,       \* the anchor type the Slot was created by
    anchor,     \* the anchor: alive, dropping, or how its drop ended
    strong,     \* strong count of the Arc / Rc
    weak,       \* number of live weak portals
    portals,    \* number of live strong portals
    guards,     \* the bag of live guards: (holder, mode, acquired while panicking)
    poisoned,   \* poison flag of the RwLock / Mutex / Poisonable
    x,          \* the captured variable's value
    pc,         \* thread -> the call the thread is blocked in, or idle
    panicking,  \* thread -> thread::panicking()
    aborted,    \* the process was aborted (a panic left a destructor while unwinding)
    last        \* the operation that completed last, and its outcome

vars == <<kind, anchor, strong, weak, portals, guards, poisoned, x, pc,
          panicking, aborted, last>>

Kinds == {"sync_Anchor", "sync_RwAnchor", "sync_WAnchor", "rc_Anchor", "rc_RwAnchor"}
RcKinds == {"rc_Anchor", "rc_RwAnchor"}
ReadOnlyKinds == {"sync_Anchor", "rc_Anchor"}
MutableKinds == {"sync_RwAnchor", "sync_WAnchor", "rc_RwAnchor"}

AllThreads == 1..NumThreads
\* The values of the captured variable (the doc examples' strings).
Values == {"Scoped", "Replacement"}
Nil == "-"
\* The payload of panic!(ANCHOR_STILL_IN_USE): the constant of the crate root.
ANCHOR_STILL_IN_USE == "Anchor still in use"

\* rc types are !Send: everything of an rc Slot happens on one thread.
Threads == IF kind \in RcKinds THEN {1} ELSE AllThreads

\* A guard: its holder, its mode, and whether the holder was panicking when it
\* acquired the guard (std records this in write and mutex guards).
GuardKeys == [t : AllThreads, mode : {"read", "write"}, acqPan : BOOLEAN]
ReadKey(t) == [t |-> t, mode |-> "read", acqPan |-> FALSE]
WriteKey(t) == [t |-> t, mode |-> "write", acqPan |-> panicking[t]]

Res(op, out, val) == [op |-> op, out |-> out, val |-> val]
\* The outcome of an operation that returns nothing a caller can tell apart.
Quiet == Res("other", "ok", Nil)

Running == ~aborted
Idle(t) == pc[t] = "idle"

\* The live guards of one mode, and their number.
GuardsOf(mode) == [k \in {j \in DOMAIN guards : j.mode = mode} |-> guards[k]]
NumGuards == BagCardinality(guards)
NumReadGuards == BagCardinality(GuardsOf("read"))
NumWriteGuards == BagCardinality(GuardsOf("write"))
Waiting == {t \in AllThreads : pc[t] \in {"read", "write", "lock"}}

\* A guard, and a call in progress, borrow the portal they were made from: the
\* portal outlives them, so the last portal stays while any of them is live.
PortalFree == portals > 1 \/ (portals = 1 /\ NumGuards = 0 /\ Waiting = {})

DropEnded == anchor \in {"retired", "failed_in_use", "failed_poisoned"}

\* Mutant: a clone that counts twice.
Arc_clone_twice(n) == n + 2
\* ---- std primitives
Arc_clone(n) == n + 1
Arc_drop(n) == n - 1
\* Mutant: an unwrap that takes the value whoever else holds it.
try_unwrap_ok_shared(s, w) == s >= 1
\* Arc::try_unwrap / Rc::try_unwrap: s the strong count, w the weak count.
try_unwrap_ok(s, w) == s = 1
\* Mutant: an upgrade that does not look at the strong count.
Weak_upgrade_ok_always(n) == TRUE
\* Mutant: an upgrade that a poisoned Slot refuses.
Weak_upgrade_ok_unless_poisoned(n) == n # 0 /\ ~poisoned
Weak_upgrade_ok(n) == n # 0
read_available == NumWriteGuards = 0
\* Mutant: a write lock that readers do not keep out.
write_available_despite_readers == NumWriteGuards = 0
write_available == NumGuards = 0
\* Mutant: an into_inner that does not report the poison.
into_inner_is_err_never == FALSE
\* RwLock::into_inner / Mutex::into_inner return Err when the lock is poisoned.
into_inner_is_err == poisoned

\* A panic raised on thread t.
Raise(t) == panicking' = [panicking EXCEPT ![t] = TRUE]

Init ==
    /\ kind \in Kinds
    /\ anchor = "alive"
    /\ strong = 1
    /\ weak = 0
    /\ portals = 0
    /\ guards = EmptyBag
    /\ poisoned = FALSE
    /\ x = "Scoped"
    /\ pc = [t \in AllThreads |-> "idle"]
    /\ panicking = [t \in AllThreads |-> FALSE]
    /\ aborted = FALSE
    /\ last = Quiet

\* ---- minting and dropping handles

portal(t) ==
    /\ Running /\ Idle(t) /\ anchor = "alive" /\ portals < MaxPortals
    /\ strong' = Arc_clone(strong)
    /\ portals' = portals + 1
    /\ last' = Quiet
    /\ UNCHANGED <<kind, anchor, weak, guards, poisoned, x, pc, panicking, aborted>>

\* Mutant: the temporary strong portal is forgotten instead of dropped.
weak_portal_leaking(t) ==
    /\ Running /\ Idle(t) /\ anchor = "alive" /\ weak < MaxWeak
    /\ strong' = Arc_clone(strong)
    /\ weak' = weak + 1
    /\ last' = Quiet
    /\ UNCHANGED <<kind, anchor, portals, guards, poisoned, x, pc, panicking, aborted>>

\* Portal::downgrade(&self.portal()): the temporary strong portal is dropped.
weak_portal(t) ==
    /\ Running /\ Idle(t) /\ anchor = "alive" /\ weak < MaxWeak
    /\ strong' = Arc_drop(Arc_clone(strong))
    /\ weak' = weak + 1
    /\ last' = Quiet
    /\ UNCHANGED <<kind, anchor, portals, guards, poisoned, x, pc, panicking, aborted>>

downgrade(t) ==
    /\ Running /\ Idle(t) /\ portals > 0 /\ weak < MaxWeak
    /\ weak' = weak + 1
    /\ last' = Quiet
    /\ UNCHANGED <<kind, anchor, strong, portals, guards, poisoned, x, pc, panicking, aborted>>

\* Mutant: a clone that shares the portal's reference instead of counting one.
Portal_clone_uncounted(t) ==
    /\ Running /\ Idle(t) /\ portals > 0 /\ portals < MaxPortals
    /\ portals' = portals + 1
    /\ last' = Quiet
    /\ UNCHANGED <<kind, anchor, strong, weak, guards, poisoned, x, pc, panicking, aborted>>
Portal_clone(t) ==
    /\ Running /\ Idle(t) /\ portals > 0 /\ portals < MaxPortals
    /\ strong' = Arc_clone(strong)
    /\ portals' = portals + 1
    /\ last' = Quiet
    /\ UNCHANGED <<kind, anchor, weak, guards, poisoned, x, pc, panicking, aborted>>

\* Mutant: a portal whose drop does not give its strong count back.
Portal_drop_leaking(t) ==
    /\ Running /\ Idle(t) /\ PortalFree
    /\ portals' = portals - 1
    /\ last' = Quiet
    /\ UNCHANGED <<kind, anchor, strong, weak, guards, poisoned, x, pc, panicking, aborted>>

Portal_drop(t) ==
    /\ Running /\ Idle(t) /\ PortalFree
    /\ strong' = Arc_drop(strong)
    /\ portals' = portals - 1
    /\ last' = Quiet
    /\ UNCHANGED <<kind, anchor, weak, guards, poisoned, x, pc, panicking, aborted>>

WeakPortal_clone(t) ==
    /\ Running /\ Idle(t) /\ weak > 0 /\ weak < MaxWeak
    /\ weak' = weak + 1
    /\ last' = Quiet
    /\ UNCHANGED <<kind, anchor, strong, portals, guards, poisoned, x, pc, panicking, aborted>>

WeakPortal_drop(t) ==
    /\ Running /\ Idle(t) /\ weak > 0
    /\ weak' = weak - 1
    /\ last' = Quiet
    /\ UNCHANGED <<kind, anchor, strong, portals, guards, poisoned, x, pc, panicking, aborted>>

\* Mutant: an upgrade that hands out a portal whatever the strong count is.
try_upgrade_unchecked(t) ==
    /\ Running /\ Idle(t) /\ weak > 0
    /\ portals < MaxPortals
    /\ strong' = Arc_clone(strong)
    /\ portals' = portals + 1
    /\ last' = Res("try_upgrade", "ok", Nil)
    /\ UNCHANGED <<kind, anchor, weak, guards, poisoned, x, pc, panicking, aborted>>
try_upgrade(t) ==
    /\ Running /\ Idle(t) /\ weak > 0
    /\ IF Weak_upgrade_ok(strong)
       THEN /\ portals < MaxPortals
            /\ strong' = Arc_clone(strong)
            /\ portals' = portals + 1
            /\ last' = Res("try_upgrade", "ok", Nil)
       ELSE /\ last' = Res("try_upgrade", "none", Nil)
            /\ UNCHANGED <<strong, portals>>
    /\ UNCHANGED <<kind, anchor, weak, guards, poisoned, x, pc, panicking, aborted>>

upgrade(t) ==
    /\ Running /\ Idle(t) /\ weak > 0
    /\ IF Weak_upgrade_ok(strong)
       THEN /\ portals < MaxPortals
            /\ strong' = Arc_clone(strong)
            /\ portals' = portals + 1
            /\ last' = Res("upgrade", "ok", Nil)
            /\ UNCHANGED panicking
       ELSE /\ last' = Res("upgrade", "dropped", Nil)
            /\ Raise(t)
            /\ UNCHANGED <<strong, portals>>
    /\ UNCHANGED <<kind, anchor, weak, guards, poisoned, x, pc, aborted>>

\* ---- access through a read-only portal (sync::Portal, rc::Portal)

\* Mutant: a pointer that never points at the captured variable for sure.
PointeeValues_dangling == Values
\* What a dereference of the stored pointer reads: the captured variable while
\* the anchor's drop has not ended; afterwards the pointer dangles (the scope
\* of the variable may have ended) and the read is undefined behaviour.
PointeeValues == IF DropEnded THEN Values ELSE {x}

Portal_deref(t) ==
    /\ Running /\ Idle(t) /\ kind \in ReadOnlyKinds /\ portals > 0
    /\ \E v \in PointeeValues : last' = Res("deref", "ok", v)
    /\ UNCHANGED <<kind, anchor, strong, weak, portals, guards, poisoned, x, pc,
                   panicking, aborted>>

\* ---- sync::RwPortal and sync::WPortal: blocking acquisition

\* The lock is held in a conflicting mode: the thread waits inside
\* RwLock::read / RwLock::write / Mutex::lock.
AcquireCall(t, op, available) ==
    /\ Running /\ Idle(t) /\ portals > 0 /\ ~available
    /\ NumGuards + Cardinality(Waiting) < MaxGuards
    /\ pc' = [pc EXCEPT ![t] = op]
    /\ last' = Quiet
    /\ UNCHANGED <<kind, anchor, strong, weak, portals, guards, poisoned, x,
                   panicking, aborted>>

\* Mutant: the guard inside the poison error is handed out all the same.
AcquireReturn_despite_poison(t, op, available, key) ==
    /\ Running /\ available
    /\ \/ pc[t] = op
       \/ Idle(t) /\ portals > 0 /\ NumGuards + Cardinality(Waiting) < MaxGuards
    /\ guards' = guards (+) SetToBag({key})
    /\ last' = Res(op, IF poisoned THEN "poisoned" ELSE "ok", Nil)
    /\ pc' = [pc EXCEPT ![t] = "idle"]
    /\ UNCHANGED <<kind, anchor, strong, weak, portals, poisoned, x, aborted,
                   panicking>>
\* Variant: a caller never finds out that the lock is poisoned.
AcquireReturn_blind_to_poison(t, op, available, key) ==
    /\ Running /\ available /\ ~poisoned
    /\ \/ pc[t] = op
       \/ Idle(t) /\ portals > 0 /\ NumGuards + Cardinality(Waiting) < MaxGuards
    /\ guards' = guards (+) SetToBag({key})
    /\ last' = Res(op, "ok", Nil)
    /\ pc' = [pc EXCEPT ![t] = "idle"]
    /\ UNCHANGED <<kind, anchor, strong, weak, portals, poisoned, x, aborted,
                   panicking>>
\* The lock is taken, at once or after the wait, and `.expect(ANCHOR_POISONED)`
\* panics (the guard inside the error is dropped again) when it is poisoned.
AcquireReturn(t, op, available, key) ==
    /\ Running /\ available
    /\ \/ pc[t] = op
       \/ Idle(t) /\ portals > 0 /\ NumGuards + Cardinality(Waiting) < MaxGuards
    /\ IF poisoned
       THEN /\ last' = Res(op, "poisoned", Nil)
            /\ Raise(t)
            /\ UNCHANGED guards
       ELSE /\ guards' = guards (+) SetToBag({key})
            /\ last' = Res(op, "ok", Nil)
            /\ UNCHANGED panicking
    /\ pc' = [pc EXCEPT ![t] = "idle"]
    /\ UNCHANGED <<kind, anchor, strong, weak, portals, poisoned, x, aborted>>

RwPortal_read_call(t) ==
    kind = "sync_RwAnchor" /\ AcquireCall(t, "read", read_available)

RwPortal_read(t) ==
    kind = "sync_RwAnchor" /\ AcquireReturn(t, "read", read_available, ReadKey(t))

RwPortal_write_call(t) ==
    kind = "sync_RwAnchor" /\ AcquireCall(t, "write", write_available)

RwPortal_write(t) ==
    kind = "sync_RwAnchor" /\ AcquireReturn(t, "write", write_available, WriteKey(t))

WPortal_lock_call(t) ==
    kind = "sync_WAnchor" /\ AcquireCall(t, "lock", write_available)

\* Mutant: a lock() that does not wait for the mutex.
WPortal_lock_unlocked(t) ==
    kind = "sync_WAnchor" /\ AcquireReturn(t, "lock", TRUE, WriteKey(t))
WPortal_lock(t) ==
    kind = "sync_WAnchor" /\ AcquireReturn(t, "lock", write_available, WriteKey(t))

\* ---- rc::RwPortal: RefCell borrows, which fail instead of blocking

\* Mutant: the RefCell borrow taken before the poison check is never returned.
RefCellAcquire_keeping_borrow(t, op, available, key) ==
    /\ Running /\ Idle(t) /\ kind = "rc_RwAnchor" /\ portals > 0
    /\ IF ~available
       THEN /\ last' = Res(op, "conflict", Nil)
            /\ Raise(t)
            /\ UNCHANGED guards
       ELSE /\ NumGuards < MaxGuards
            /\ guards' = guards (+) SetToBag({key})
            /\ IF poisoned
               THEN last' = Res(op, "poisoned", Nil) /\ Raise(t)
               ELSE last' = Res(op, "ok", Nil) /\ UNCHANGED panicking
    /\ UNCHANGED <<kind, anchor, strong, weak, portals, poisoned, x, pc, aborted>>
\* Mutant: a borrow that waits for a conflicting guard instead of failing.
RefCellAcquire_waiting(t, op, available, key) ==
    /\ Running /\ Idle(t) /\ kind = "rc_RwAnchor" /\ portals > 0
    /\ available
    /\ IF poisoned
       THEN /\ last' = Res(op, "poisoned", Nil)
            /\ Raise(t)
            /\ UNCHANGED guards
       ELSE /\ NumGuards < MaxGuards
            /\ guards' = guards (+) SetToBag({key})
            /\ last' = Res(op, "ok", Nil)
            /\ UNCHANGED panicking
    /\ UNCHANGED <<kind, anchor, strong, weak, portals, poisoned, x, pc, aborted>>
\* RefCell::borrow / borrow_mut, then the poison check, then the guard.
RefCellAcquire(t, op, available, key) ==
    /\ Running /\ Idle(t) /\ kind = "rc_RwAnchor" /\ portals > 0
    /\ IF ~available
       THEN /\ last' = Res(op, "conflict", Nil)
            /\ Raise(t)
            /\ UNCHANGED guards
       ELSE IF poisoned
       THEN /\ last' = Res(op, "poisoned", Nil)
            /\ Raise(t)
            /\ UNCHANGED guards
       ELSE /\ NumGuards < MaxGuards
            /\ guards' = guards (+) SetToBag({key})
            /\ last' = Res(op, "ok", Nil)
            /\ UNCHANGED panicking
    /\ UNCHANGED <<kind, anchor, strong, weak, portals, poisoned, x, pc, aborted>>

RwPortal_borrow(t) == RefCellAcquire(t, "borrow", read_available, ReadKey(t))

RwPortal_borrow_mut(t) == RefCellAcquire(t, "borrow_mut", write_available, WriteKey(t))

\* ---- guards

Guard_deref(k) ==
    /\ Running /\ Idle(k.t) /\ BagIn(k, guards)
    /\ \E v \in PointeeValues : last' = Res("guard_deref", "ok", v)
    /\ UNCHANGED <<kind, anchor, strong, weak, portals, guards, poisoned, x, pc,
                   panicking, aborted>>

\* Mutant: a write guard that stores into a copy of the captured variable.
Guard_deref_mut_to_copy(k, v) ==
    /\ Running /\ Idle(k.t) /\ BagIn(k, guards) /\ k.mode = "write"
    /\ last' = Res("guard_deref_mut", "ok", v)
    /\ UNCHANGED <<kind, anchor, strong, weak, portals, guards, poisoned, x, pc,
                   panicking, aborted>>
Guard_deref_mut(k, v) ==
    /\ Running /\ Idle(k.t) /\ BagIn(k, guards) /\ k.mode = "write"
    /\ x' = v
    /\ last' = Res("guard_deref_mut", "ok", v)
    /\ UNCHANGED <<kind, anchor, strong, weak, portals, guards, poisoned, pc,
                   panicking, aborted>>

\* Mutant: a PortalRefMut that never poisons.
PortalRefMut_drop_poisons_never(k) == FALSE
\* impl Drop for PortalRefMut: poisons whenever the thread is panicking.
PortalRefMut_drop_poisons(k) == panicking[k.t]

\* std's RwLockWriteGuard / MutexGuard: poisons when the thread is panicking
\* and was not when the guard was acquired.
LockGuard_drop_poisons(k) == panicking[k.t] /\ ~k.acqPan

\* How a guard is released: in normal execution, while a failure raised during
\* its life unwinds, or in cleanup code that acquired it while unwinding.
ReleaseHow(k) ==
    IF ~panicking[k.t] THEN "normal"
    ELSE IF k.acqPan THEN "in_cleanup" ELSE "failing"

\* Mutant: every guard poisons when it is dropped while unwinding.
Guard_drop_poisoning_readers(k) ==
    /\ Running /\ Idle(k.t) /\ BagIn(k, guards)
    /\ guards' = guards (-) SetToBag({k})
    /\ poisoned' = (poisoned \/ panicking[k.t])
    /\ last' = Res(IF k.mode = "write" THEN "release_write" ELSE "release_read",
                   ReleaseHow(k), Nil)
    /\ UNCHANGED <<kind, anchor, strong, weak, portals, x, pc, panicking, aborted>>
\* Mutant: a guard that keeps its lock when it is dropped while unwinding.
Guard_drop_held_when_failing(k) ==
    /\ Running /\ Idle(k.t) /\ BagIn(k, guards)
    /\ guards' = IF panicking[k.t] THEN guards ELSE guards (-) SetToBag({k})
    /\ poisoned' = (poisoned \/ (k.mode = "write" /\ panicking[k.t]))
    /\ last' = Res(IF k.mode = "write" THEN "release_write" ELSE "release_read",
                   ReleaseHow(k), Nil)
    /\ UNCHANGED <<kind, anchor, strong, weak, portals, x, pc, panicking, aborted>>
Guard_drop(k) ==
    /\ Running /\ Idle(k.t) /\ BagIn(k, guards)
    /\ guards' = guards (-) SetToBag({k})
    /\ poisoned' =
         (\/ poisoned
          \/ /\ k.mode = "write"
             /\ IF kind = "rc_RwAnchor"
                THEN PortalRefMut_drop_poisons(k)
                ELSE LockGuard_drop_poisons(k))
    /\ last' = Res(IF k.mode = "write" THEN "release_write" ELSE "release_read",
                   ReleaseHow(k), Nil)
    /\ UNCHANGED <<kind, anchor, strong, weak, portals, x, pc, panicking, aborted>>

\* ---- failures of the code that uses the handles

\* The code running on thread t panics.
StartPanic(t) ==
    /\ Running /\ Idle(t) /\ ~panicking[t]
    /\ Raise(t)
    /\ last' = Quiet
    /\ UNCHANGED <<kind, anchor, strong, weak, portals, guards, poisoned, x, pc, aborted>>

\* The panic is caught (catch_unwind, assert_panic!).
Catch(t) ==
    /\ Running /\ Idle(t) /\ panicking[t]
    /\ panicking' = [panicking EXCEPT ![t] = FALSE]
    /\ last' = Quiet
    /\ UNCHANGED <<kind, anchor, strong, weak, portals, guards, poisoned, x, pc, aborted>>

\* ---- the anchors' drops

\* A panic leaving the anchor's destructor: it starts unwinding on thread t.
\* When t is unwinding already, the process is aborted (the anchor was dropped
\* by the unwinding itself, or the toolchain aborts on every nested panic), or
\* the nested panic is caught inside the cleanup code that dropped the anchor.
DropPanic(t) ==
    IF panicking[t]
    THEN aborted' \in BOOLEAN /\ UNCHANGED panicking
    ELSE Raise(t) /\ UNCHANGED aborted

\* Mutant: a sync::Anchor whose drop waits for the portals to go away.
sync_Anchor_drop_waiting(t) ==
    /\ Running /\ Idle(t) /\ kind = "sync_Anchor" /\ anchor = "alive"
    /\ try_unwrap_ok(strong, weak)
    /\ strong' = 0
    /\ anchor' = "retired"
    /\ last' = Res("anchor_drop", "ok", Nil)
    /\ UNCHANGED <<kind, weak, portals, guards, poisoned, x, pc, panicking, aborted>>
sync_Anchor_drop(t) ==
    /\ Running /\ Idle(t) /\ kind = "sync_Anchor" /\ anchor = "alive"
    /\ IF try_unwrap_ok(strong, weak)
       THEN /\ strong' = 0
            /\ anchor' = "retired"
            /\ last' = Res("anchor_drop", "ok", Nil)
            /\ UNCHANGED <<panicking, aborted>>
       ELSE /\ strong' = Arc_drop(strong)
            /\ anchor' = "failed_in_use"
            /\ last' = Res("anchor_drop", "in_use", ANCHOR_STILL_IN_USE)
            /\ DropPanic(t)
    /\ UNCHANGED <<kind, weak, portals, guards, poisoned, x, pc>>

\* sync::RwAnchor and sync::WAnchor, first part: Arc::try_unwrap, and when it
\* succeeds RwLock::into_inner / Mutex::into_inner, which report the poison.
LockAnchor_drop(t) ==
    /\ Running /\ Idle(t) /\ anchor = "alive"
    /\ IF try_unwrap_ok(strong, weak)
       THEN /\ strong' = 0
            /\ pc' = pc
            /\ IF into_inner_is_err
               THEN /\ anchor' = "failed_poisoned"
                    /\ last' = Res("anchor_drop", "poisoned", Nil)
                    /\ DropPanic(t)
               ELSE /\ anchor' = "retired"
                    /\ last' = Res("anchor_drop", "ok", Nil)
                    /\ UNCHANGED <<panicking, aborted>>
       ELSE /\ anchor' = "dropping"
            /\ pc' = [pc EXCEPT ![t] = "drop"]
            /\ last' = Quiet
            /\ UNCHANGED <<strong, panicking, aborted>>
    /\ UNCHANGED <<kind, weak, portals, guards, poisoned, x>>

\* Mutant: the drop's guard sets the poison flag to what it finds on its own
\* release instead of only raising it.
LockAnchor_drop_poison_overwriting(t) ==
    /\ Running /\ pc[t] = "drop" /\ anchor = "dropping"
    /\ write_available
    /\ poisoned' = ~panicking[t]
    /\ strong' = Arc_drop(strong)
    /\ anchor' = "failed_in_use"
    /\ pc' = [pc EXCEPT ![t] = "idle"]
    /\ last' = Res("anchor_drop", "in_use", ANCHOR_STILL_IN_USE)
    /\ DropPanic(t)
    /\ UNCHANGED <<kind, weak, portals, guards, x>>
\* Second part, when portals exist: `let _guard = reference.write()` (or
\* .lock()) waits for the lock, panic!(ANCHOR_STILL_IN_USE) drops the guard
\* while unwinding, which poisons the lock, and then the anchor's Arc.
LockAnchor_drop_poison(t) ==
    /\ Running /\ pc[t] = "drop" /\ anchor = "dropping"
    /\ write_available
    /\ poisoned' = (poisoned \/ ~panicking[t])
    /\ strong' = Arc_drop(strong)
    /\ anchor' = "failed_in_use"
    /\ pc' = [pc EXCEPT ![t] = "idle"]
    /\ last' = Res("anchor_drop", "in_use", ANCHOR_STILL_IN_USE)
    /\ DropPanic(t)
    /\ UNCHANGED <<kind, weak, portals, guards, x>>

sync_RwAnchor_drop(t) == kind = "sync_RwAnchor" /\ LockAnchor_drop(t)

sync_RwAnchor_drop_poison(t) == kind = "sync_RwAnchor" /\ LockAnchor_drop_poison(t)

sync_WAnchor_drop(t) == kind = "sync_WAnchor" /\ LockAnchor_drop(t)

sync_WAnchor_drop_poison(t) == kind = "sync_WAnchor" /\ LockAnchor_drop_poison(t)

\* Mutant: a second lock() that panics instead of waiting.
Deadlock_panicking(t) ==
    /\ anchor' = "failed_in_use"
    /\ pc' = pc
    /\ last' = Res("anchor_drop", "in_use", ANCHOR_STILL_IN_USE)
\* Locking the deadlock mutex twice: the thread never runs again.
Deadlock(t) ==
    /\ anchor' = "deadlocked"
    /\ pc' = [pc EXCEPT ![t] = "deadlock"]
    /\ last' = Res("anchor_drop", "deadlock", Nil)

\* Mutant: an rc::Anchor whose drop panics like sync::Anchor's.
rc_Anchor_drop_panicking(t) ==
    /\ Running /\ Idle(t) /\ kind = "rc_Anchor" /\ anchor = "alive"
    /\ IF try_unwrap_ok(strong, weak)
       THEN /\ strong' = 0
            /\ anchor' = "retired"
            /\ last' = Res("anchor_drop", "ok", Nil)
            /\ UNCHANGED <<panicking, aborted>>
       ELSE /\ strong' = Arc_drop(strong)
            /\ anchor' = "failed_in_use"
            /\ last' = Res("anchor_drop", "in_use", ANCHOR_STILL_IN_USE)
            /\ DropPanic(t)
    /\ UNCHANGED <<kind, weak, portals, guards, poisoned, x, pc>>
rc_Anchor_drop(t) ==
    /\ Running /\ Idle(t) /\ kind = "rc_Anchor" /\ anchor = "alive"
    /\ IF try_unwrap_ok(strong, weak)
       THEN /\ strong' = 0
            /\ anchor' = "retired"
            /\ last' = Res("anchor_drop", "ok", Nil)
            /\ pc' = pc
       ELSE /\ Deadlock(t)
            /\ UNCHANGED strong
    /\ UNCHANGED <<kind, weak, portals, guards, poisoned, x, panicking, aborted>>

\* Mutant: the poison flag is looked at before the strong count.
rc_RwAnchor_drop_poison_first(t) ==
    /\ Running /\ Idle(t) /\ kind = "rc_RwAnchor" /\ anchor = "alive"
    /\ pc' = pc
    /\ IF poisoned
       THEN /\ strong' = Arc_drop(strong)
            /\ poisoned' = poisoned
            /\ anchor' = "failed_poisoned"
            /\ last' = Res("anchor_drop", "poisoned", Nil)
            /\ DropPanic(t)
       ELSE IF try_unwrap_ok(strong, weak)
       THEN /\ strong' = 0
            /\ poisoned' = poisoned
            /\ anchor' = "retired"
            /\ last' = Res("anchor_drop", "ok", Nil)
            /\ UNCHANGED <<panicking, aborted>>
       ELSE /\ write_available
            /\ poisoned' = TRUE
            /\ strong' = Arc_drop(strong)
            /\ anchor' = "failed_in_use"
            /\ last' = Res("anchor_drop", "in_use", ANCHOR_STILL_IN_USE)
            /\ DropPanic(t)
    /\ UNCHANGED <<kind, weak, portals, guards, x>>

rc_RwAnchor_drop(t) ==
    /\ Running /\ Idle(t) /\ kind = "rc_RwAnchor" /\ anchor = "alive"
    /\ IF try_unwrap_ok(strong, weak)
       THEN /\ strong' = 0
            /\ pc' = pc
            /\ poisoned' = poisoned
            /\ IF poisoned
               THEN /\ anchor' = "failed_poisoned"
                    /\ last' = Res("anchor_drop", "poisoned", Nil)
                    /\ DropPanic(t)
               ELSE /\ anchor' = "retired"
                    /\ last' = Res("anchor_drop", "ok", Nil)
                    /\ UNCHANGED <<panicking, aborted>>
       ELSE IF ~write_available
       THEN /\ Deadlock(t)
            /\ UNCHANGED <<strong, poisoned, panicking, aborted>>
       ELSE /\ poisoned' = TRUE
            /\ strong' = Arc_drop(strong)
            /\ anchor' = "failed_in_use"
            /\ last' = Res("anchor_drop", "in_use", ANCHOR_STILL_IN_USE)
            /\ pc' = pc
            /\ DropPanic(t)
    /\ UNCHANGED <<kind, weak, portals, guards, x>>

Next ==
    \/ \E t \in Threads : portal(t)
    \/ \E t \in Threads : weak_portal(t)
    \/ \E t \in Threads : downgrade(t)
    \/ \E t \in Threads : Portal_clone(t)
    \/ \E t \in Threads : Portal_drop(t)
    \/ \E t \in Threads : WeakPortal_clone(t)
    \/ \E t \in Threads : WeakPortal_drop(t)
    \/ \E t \in Threads : try_upgrade(t)
    \/ \E t \in Threads : upgrade(t)
    \/ \E t \in Threads : Portal_deref(t)
    \/ \E t \in Threads : RwPortal_read_call(t)
    \/ \E t \in Threads : RwPortal_read(t)
    \/ \E t \in Threads : RwPortal_write_call(t)
    \/ \E t \in Threads : RwPortal_write(t)
    \/ \E t \in Threads : WPortal_lock_call(t)
    \/ \E t \in Threads : WPortal_lock(t)
    \/ \E t \in Threads : RwPortal_borrow(t)
    \/ \E t \in Threads : RwPortal_borrow_mut(t)
    \/ \E k \in GuardKeys : Guard_deref(k)
    \/ \E k \in GuardKeys, v \in Values : Guard_deref_mut(k, v)
    \/ \E k \in GuardKeys : Guard_drop(k)
    \/ \E t \in Threads : StartPanic(t)
    \/ \E t \in Threads : Catch(t)
    \/ \E t \in Threads : sync_Anchor_drop(t)
    \/ \E t \in Threads : sync_RwAnchor_drop(t)
    \/ \E t \in Threads : sync_RwAnchor_drop_poison(t)
    \/ \E t \in Threads : sync_WAnchor_drop(t)
    \/ \E t \in Threads : sync_WAnchor_drop_poison(t)
    \/ \E t \in Threads : rc_Anchor_drop(t)
    \/ \E t \in Threads : rc_RwAnchor_drop(t)

Spec == Init /\ [][Next]_vars

\* A call that waits for the lock returns, and the waiting drop goes on.
Wake(t) ==
    \/ pc[t] = "read" /\ RwPortal_read(t)
    \/ pc[t] = "write" /\ RwPortal_write(t)
    \/ pc[t] = "lock" /\ WPortal_lock(t)
    \/ sync_RwAnchor_drop_poison(t)
    \/ sync_WAnchor_drop_poison(t)

\* The threaded module under fair scheduling: the threads that hold guards
\* and are not themselves waiting release them, down to the last one, again
\* and again, and the lock is handed to a caller that finds it free again and
\* again.
Fairness ==
    /\ \A n \in 0..(MaxGuards - 1) :
          SF_vars(\E k \in GuardKeys : Guard_drop(k) /\ BagCardinality(guards') = n)
    /\ \A t \in AllThreads : SF_vars(Wake(t))

\* The operations of sync::RwAnchor and sync::WAnchor that take part in
\* locking: strong portals, the three acquisitions, the release of a guard,
\* panics and the anchor's drop.  Weak portals and the accesses through a
\* guard leave the lock and the callers' positions alone.
LockInit == Init /\ kind \in {"sync_RwAnchor", "sync_WAnchor"}

LockNext ==
    \/ \E t \in Threads : portal(t)
    \/ \E t \in Threads : Portal_clone(t)
    \/ \E t \in Threads : Portal_drop(t)
    \/ \E t \in Threads : RwPortal_read_call(t)
    \/ \E t \in Threads : RwPortal_read(t)
    \/ \E t \in Threads : RwPortal_write_call(t)
    \/ \E t \in Threads : RwPortal_write(t)
    \/ \E t \in Threads : WPortal_lock_call(t)
    \/ \E t \in Threads : WPortal_lock(t)
    \/ \E k \in GuardKeys : Guard_drop(k)
    \/ \E t \in Threads : StartPanic(t)
    \/ \E t \in Threads : Catch(t)
    \/ \E t \in Threads : sync_RwAnchor_drop(t)
    \/ \E t \in Threads : sync_RwAnchor_drop_poison(t)
    \/ \E t \in Threads : sync_WAnchor_drop(t)
    \/ \E t \in Threads : sync_WAnchor_drop_poison(t)

FairSpec == LockInit /\ [][LockNext]_vars /\ Fairness

\* ---- the crate root (lib.rs): the Slot holds Option<pointer> inside the
\* lock, the anchor's drop takes it out under try_write / try_lock /
\* try_borrow_mut, and the portals are neither cloned nor downgraded.
\* anchor = "retired" is the contents being None.

LibKinds == {"lib_Anchor", "lib_RwAnchor", "lib_WAnchor", "lib_UnSendAnchor",
             "lib_UnSendRwAnchor"}
LibLockKinds == {"lib_Anchor", "lib_RwAnchor", "lib_WAnchor"}
LibUnSendKinds == {"lib_UnSendAnchor", "lib_UnSendRwAnchor"}
\* Rc is !Send: everything of an UnSend Slot happens on one thread.
LibThreads == IF kind \in LibUnSendKinds THEN {1} ELSE AllThreads

LibInit ==
    /\ kind \in LibKinds
    /\ anchor = "alive"
    /\ strong = 1
    /\ weak = 0
    /\ portals = 0
    /\ guards = EmptyBag
    /\ poisoned = FALSE
    /\ x = "Scoped"
    /\ pc = [t \in AllThreads |-> "idle"]
    /\ panicking = [t \in AllThreads |-> FALSE]
    /\ aborted = FALSE
    /\ last = Quiet

\* Anchor::portal, RwAnchor::portal / rw_portal, WAnchor::w_portal, ...
lib_portal(t) == kind \in LibKinds /\ portal(t)

\* The portals have no Drop of their own: the Arc / Rc is dropped.
lib_Portal_drop(t) == kind \in LibKinds /\ Portal_drop(t)

\* Portal::read (.unwrap()) and RwPortal::read (.expect(ANCHOR_POISONED)).
lib_Portal_read_call(t) ==
    kind \in {"lib_Anchor", "lib_RwAnchor"} /\ AcquireCall(t, "read", read_available)

lib_Portal_read(t) ==
    /\ kind \in {"lib_Anchor", "lib_RwAnchor"}
    /\ AcquireReturn(t, "read", read_available, ReadKey(t))

lib_RwPortal_write_call(t) ==
    kind = "lib_RwAnchor" /\ AcquireCall(t, "write", write_available)

lib_RwPortal_write(t) ==
    kind = "lib_RwAnchor" /\ AcquireReturn(t, "write", write_available, WriteKey(t))

\* WPortal::write: Mutex::lock.
lib_WPortal_write_call(t) ==
    kind = "lib_WAnchor" /\ AcquireCall(t, "lock", write_available)

lib_WPortal_write(t) ==
    kind = "lib_WAnchor" /\ AcquireReturn(t, "lock", write_available, WriteKey(t))

\* RefCell::borrow / borrow_mut panic on a conflicting borrow; a RefCell has
\* no poison.
lib_RefCellAcquire(t, op, available, key) ==
    /\ Running /\ Idle(t) /\ portals > 0
    /\ IF ~available
       THEN /\ last' = Res(op, "conflict", Nil)
            /\ Raise(t)
            /\ UNCHANGED guards
       ELSE /\ NumGuards < MaxGuards
            /\ guards' = guards (+) SetToBag({key})
            /\ last' = Res(op, "ok", Nil)
            /\ UNCHANGED panicking
    /\ UNCHANGED <<kind, anchor, strong, weak, portals, poisoned, x, pc, aborted>>

lib_UnSendPortal_borrow(t) ==
    kind \in LibUnSendKinds /\ lib_RefCellAcquire(t, "borrow", read_available, ReadKey(t))

lib_UnSendRwPortal_borrow_mut(t) ==
    /\ kind = "lib_UnSendRwAnchor"
    /\ lib_RefCellAcquire(t, "borrow_mut", write_available, WriteKey(t))

\* Deref of a guard: `.expect(ANCHOR_DROPPED)` (`.unwrap()` for the UnSend
\* guards) on the Option, then the pointer is dereferenced.
lib_Guard_deref(k) ==
    /\ Running /\ Idle(k.t) /\ kind \in LibKinds /\ BagIn(k, guards)
    /\ IF anchor = "retired"
       THEN /\ last' = Res("guard_deref", "dropped", Nil)
            /\ Raise(k.t)
       ELSE /\ \E v \in PointeeValues : last' = Res("guard_deref", "ok", v)
            /\ UNCHANGED panicking
    /\ UNCHANGED <<kind, anchor, strong, weak, portals, guards, poisoned, x, pc, aborted>>

lib_Guard_deref_mut(k, v) ==
    /\ Running /\ Idle(k.t) /\ kind \in LibKinds /\ BagIn(k, guards)
    /\ k.mode = "write"
    /\ IF anchor = "retired"
       THEN /\ last' = Res("guard_deref_mut", "dropped", Nil)
            /\ Raise(k.t)
            /\ UNCHANGED x
       ELSE /\ x' = v
            /\ last' = Res("guard_deref_mut", "ok", v)
            /\ UNCHANGED panicking
    /\ UNCHANGED <<kind, anchor, strong, weak, portals, guards, poisoned, pc, aborted>>

\* Mutant: a read guard that poisons the lock when its holder fails.
lib_Guard_drop_poisoning_readers(k) ==
    /\ Running /\ Idle(k.t) /\ kind \in LibKinds /\ BagIn(k, guards)
    /\ guards' = guards (-) SetToBag({k})
    /\ poisoned' = (poisoned \/ (kind \in LibLockKinds /\ panicking[k.t]))
    /\ last' = Res(IF k.mode = "write" THEN "release_write" ELSE "release_read",
                   ReleaseHow(k), Nil)
    /\ UNCHANGED <<kind, anchor, strong, weak, portals, x, pc, panicking, aborted>>
\* The guards wrap std's guards: a write or mutex guard poisons as std's do,
\* a RefMut does not.
lib_Guard_drop(k) ==
    /\ Running /\ Idle(k.t) /\ kind \in LibKinds /\ BagIn(k, guards)
    /\ guards' = guards (-) SetToBag({k})
    /\ poisoned' =
         (\/ poisoned
          \/ k.mode = "write" /\ kind \in LibLockKinds /\ LockGuard_drop_poisons(k))
    /\ last' = Res(IF k.mode = "write" THEN "release_write" ELSE "release_read",
                   ReleaseHow(k), Nil)
    /\ UNCHANGED <<kind, anchor, strong, weak, portals, x, pc, panicking, aborted>>

\* Mutant: a try_write that takes the lock whoever holds it.
try_write_would_block_never == FALSE
\* try_write / try_lock: WouldBlock while any guard is live, Poisoned when the
\* lock is free and poisoned.
try_write_would_block == ~write_available

\* impl Drop for Anchor / RwAnchor / WAnchor: try_write (try_lock), the match
\* on the error, `.take().unwrap()`; then the anchor's Arc is dropped.
lib_LockAnchor_drop(t) ==
    /\ Running /\ Idle(t) /\ kind \in LibLockKinds /\ anchor = "alive"
    /\ strong' = Arc_drop(strong)
    /\ IF try_write_would_block
       THEN /\ anchor' = "failed_in_use"
            /\ last' = Res("anchor_drop", "in_use", ANCHOR_STILL_IN_USE)
            /\ DropPanic(t)
       ELSE IF poisoned
       THEN /\ anchor' = "failed_poisoned"
            /\ last' = Res("anchor_drop",
                           IF kind = "lib_Anchor" THEN "unreachable" ELSE "poisoned", Nil)
            /\ DropPanic(t)
       ELSE /\ anchor' = "retired"
            /\ last' = Res("anchor_drop", "ok", Nil)
            /\ UNCHANGED <<panicking, aborted>>
    /\ UNCHANGED <<kind, weak, portals, guards, poisoned, x, pc>>

\* impl Drop for UnSendAnchor / UnSendRwAnchor: try_borrow_mut,
\* `.expect(ANCHOR_STILL_IN_USE)` (whose message goes on with the borrow
\* error, and is not recorded), `.take().unwrap()`.
lib_UnSendAnchor_drop(t) ==
    /\ Running /\ Idle(t) /\ kind \in LibUnSendKinds /\ anchor = "alive"
    /\ strong' = Arc_drop(strong)
    /\ IF ~write_available
       THEN /\ anchor' = "failed_in_use"
            /\ last' = Res("anchor_drop", "in_use", Nil)
            /\ DropPanic(t)
       ELSE /\ anchor' = "retired"
            /\ last' = Res("anchor_drop", "ok", Nil)
            /\ UNCHANGED <<panicking, aborted>>
    /\ UNCHANGED <<kind, weak, portals, guards, poisoned, x, pc>>

LibNext ==
    \/ \E t \in LibThreads : lib_portal(t)
    \/ \E t \in LibThreads : lib_Portal_drop(t)
    \/ \E t \in LibThreads : lib_Portal_read_call(t)
    \/ \E t \in LibThreads : lib_Portal_read(t)
    \/ \E t \in LibThreads : lib_RwPortal_write_call(t)
    \/ \E t \in LibThreads : lib_RwPortal_write(t)
    \/ \E t \in LibThreads : lib_WPortal_write_call(t)
    \/ \E t \in LibThreads : lib_WPortal_write(t)
    \/ \E t \in LibThreads : lib_UnSendPortal_borrow(t)
    \/ \E t \in LibThreads : lib_UnSendRwPortal_borrow_mut(t)
    \/ \E k \in GuardKeys : lib_Guard_deref(k)
    \/ \E k \in GuardKeys, v \in Values : lib_Guard_deref_mut(k, v)
    \/ \E k \in GuardKeys : lib_Guard_drop(k)
    \/ \E t \in LibThreads : StartPanic(t)
    \/ \E t \in LibThreads : Catch(t)
    \/ \E t \in LibThreads : lib_LockAnchor_drop(t)
    \/ \E t \in LibThreads : lib_UnSendAnchor_drop(t)

LibSpec == LibInit /\ [][LibNext]_vars

\* Every anchor type of the repository: the modules sync and rc, and the
\* crate root.
AllInit == Init \/ LibInit

AllNext ==
    \/ kind \in Kinds /\ Next
    \/ kind \in LibKinds /\ LibNext

AllSpec == AllInit /\ [][AllNext]_vars

TypeOK ==
    /\ kind \in Kinds
    /\ anchor \in {"alive", "dropping", "retired", "failed_in_use", "failed_poisoned",
                   "deadlocked"}
    /\ strong \in 0..(MaxPortals + 1)
    /\ weak \in 0..MaxWeak
    /\ portals \in 0..MaxPortals
    /\ NumGuards <= MaxGuards
    /\ poisoned \in BOOLEAN
    /\ x \in Values
    /\ aborted \in BOOLEAN

\* ---- the claims

AccessOps == {"deref", "read", "write", "lock", "borrow", "borrow_mut", "guard_deref"}
AcquireOps == {"read", "write", "lock", "borrow", "borrow_mut"}
NoPanic == \A t \in AllThreads : ~panicking[t]
\* The step in which an anchor's drop starts (and, for all but the waiting
\* sync drops, ends).
DropStarts == anchor = "alive" /\ anchor' # "alive"

\* C1: once the anchor's drop has ended (it returned, or its panic was caught)
\* no guard is live and no later dereference or acquisition yields access.
C1_NoDanglingAccess ==
    (DropEnded /\ Running /\ NoPanic) =>
        /\ NumGuards = 0
        /\ (last.op \in AccessOps => last.out # "ok")

\* C2: a drop never completes successfully while a strong portal exists: it
\* fails with 'still in use' or blocks.
C2_NoRetireWhileInUse ==
    /\ (anchor = "retired" => portals = 0 /\ strong = 0)
    /\ (last.op = "anchor_drop" /\ portals > 0 => last.out \in {"in_use", "deadlock"})

C2_Witness ==
    /\ last.op = "anchor_drop" /\ last.out = "in_use" /\ portals > 0
    /\ kind = "sync_RwAnchor"

\* C3 as stated: a drop started while no strong portal exists always succeeds
\* and leaves the Slot absent, after any prior sequence of operations.
C3_Original ==
    [][(DropStarts /\ portals = 0) => (anchor' = "retired" /\ strong' = 0)]_vars

\* C3 amended: a drop started while no strong portal exists and the Slot is not
\* poisoned succeeds, without waiting, and leaves the Slot absent.
C3_RetireUnusedUnpoisoned ==
    [][(DropStarts /\ portals = 0 /\ ~poisoned) =>
            (anchor' = "retired" /\ strong' = 0 /\ last'.out = "ok")]_vars

C3_Witness ==
    /\ anchor = "retired" /\ last.op = "anchor_drop" /\ last.out = "ok"
    /\ kind \in MutableKinds /\ strong = 0 /\ ~poisoned
    /\ x = "Replacement" /\ weak = 0

C5_Original ==
    /\ (last.op = "release_write" /\ last.out \in {"failing", "in_cleanup"} => poisoned)
    /\ (poisoned /\ last.op \in AcquireOps => last.out = "poisoned")

\* C5 amended: the same for a write guard that was acquired while its holder
\* was not panicking and released while it was.
C5_PoisonedAfterFailingRelease ==
    /\ [][poisoned => poisoned']_vars
    /\ []((last.op = "release_write" /\ last.out = "failing") => poisoned)
    /\ []((poisoned /\ last.op \in AcquireOps) => last.out = "poisoned")

C5_Witness ==
    /\ last.op \in {"read", "borrow"} /\ last.out = "poisoned"
    /\ anchor = "alive" /\ portals = 2

\* C6 as stated: once the Slot is poisoned every drop fails with Poisoned.
C6_Original ==
    [][(DropStarts /\ poisoned) => anchor' = "failed_poisoned"]_vars

\* C6 amended: once the Slot is poisoned every drop fails, without blocking:
\* with Poisoned when no strong portal exists, with 'still in use' otherwise.
C6_PoisonedDropFails ==
    /\ [][(DropStarts /\ poisoned) =>
            IF portals = 0
            THEN anchor' = "failed_poisoned" /\ last'.out = "poisoned"
            ELSE anchor' \in {"failed_in_use", "dropping"}]_vars
    /\ [][(anchor = "dropping" /\ anchor' # "dropping") =>
            (anchor' = "failed_in_use" /\ last'.out = "in_use")]_vars
    /\ []((anchor = "dropping" /\ poisoned) => write_available)

C6_Witness ==
    /\ anchor = "failed_poisoned" /\ last.op = "anchor_drop" /\ last.out = "poisoned"
    /\ portals = 0 /\ weak > 0

\* C7 as stated: a mutable anchor dropped while a strong portal exists fails
\* with 'still in use' (at once, or after waiting for the lock).
C7_Original ==
    [][(DropStarts /\ kind \in MutableKinds /\ portals > 0) =>
            anchor' \in {"failed_in_use", "dropping"}]_vars

\* C7 amended: such a drop fails with 'still in use', also when the Slot is
\* poisoned, unless it blocks (rc: a borrow is active); it never reports
\* 'poisoned', which is reported only when no strong portal exists and the
\* Slot is poisoned.
C7_InUseBeforePoisoned ==
    /\ [][(DropStarts /\ kind \in MutableKinds /\ portals > 0) =>
            /\ anchor' \in {"failed_in_use", "dropping", "deadlocked"}
            /\ (anchor' = "deadlocked" => kind = "rc_RwAnchor" /\ NumGuards > 0)]_vars
    /\ [][(DropStarts /\ anchor' = "failed_poisoned") => (portals = 0 /\ poisoned)]_vars
    /\ [][(anchor = "dropping" /\ anchor' # "dropping") => anchor' = "failed_in_use"]_vars

C7_Witness ==
    /\ anchor = "failed_in_use" /\ last.op = "anchor_drop" /\ last.out = "in_use"
    /\ kind = "sync_WAnchor" /\ portals > 0 /\ poisoned /\ x = "Replacement"

\* C8: when the drop of a mutable anchor has failed with 'still in use' the
\* Slot is poisoned, and every later acquisition fails with Poisoned.
C8_InUseFailurePoisons ==
    (kind \in MutableKinds /\ anchor = "failed_in_use" /\ Running) =>
        /\ poisoned
        /\ NumGuards = 0
        /\ (last.op \in AcquireOps => last.out = "poisoned")

C10_ReadersOrOneWriter ==
    kind \in {"sync_RwAnchor", "rc_RwAnchor"} =>
        \/ NumWriteGuards = 0
        \/ (NumWriteGuards = 1 /\ NumReadGuards = 0)

C10_Witness ==
    /\ kind \in {"sync_RwAnchor", "rc_RwAnchor"}
    /\ NumReadGuards >= 2

\* C11: on an exclusive-only Slot (sync::WPortal) at most one guard is live,
\* across all portals and all threads.
C11_OneGuardAtATime ==
    kind = "sync_WAnchor" => NumGuards <= 1 /\ NumReadGuards = 0

C11_Witness ==
    /\ kind = "sync_WAnchor" /\ NumGuards = 1 /\ portals = 2
    /\ \E t \in AllThreads : pc[t] = "lock"

\* C12: on an rc::RwPortal an acquisition that conflicts with a live guard
\* (borrow_mut while any guard is live, borrow while a write guard is live)
\* fails at once: the call is never kept waiting and yields no guard.
C12_ConflictFailsAtOnce ==
    /\ [](kind = "rc_RwAnchor" => Waiting = {})
    /\ []((kind = "rc_RwAnchor" /\ Running /\ Idle(1) /\ NumGuards > 0) =>
            ENABLED RwPortal_borrow_mut(1))
    /\ []((kind = "rc_RwAnchor" /\ Running /\ Idle(1) /\ NumWriteGuards > 0) =>
            ENABLED RwPortal_borrow(1))
    /\ [][(last'.op = "borrow_mut" /\ NumGuards > 0) =>
            (last'.out = "conflict" /\ guards' = guards /\ panicking'[1])]_vars
    /\ [][(last'.op = "borrow" /\ NumWriteGuards > 0) =>
            (last'.out = "conflict" /\ guards' = guards /\ panicking'[1])]_vars

C12_Witness ==
    /\ last.op = "borrow" /\ last.out = "conflict" /\ NumWriteGuards = 1

\* C13: a guard gives its lock / borrow back when it is dropped, in normal
\* execution and while unwinding alike: it is no longer a live guard, and a
\* later acquisition conflicts or waits only while a live guard exists.
C13_GuardsReleaseOnEveryPath ==
    /\ [][(last'.op \in {"release_read", "release_write"}) =>
            (NumGuards' = NumGuards - 1 /\ (NumGuards' = 0 => write_available'))]_vars
    /\ [](last.out = "conflict" => NumGuards > 0)
    /\ [](\A t \in AllThreads :
            (Running /\ pc[t] \in {"write", "lock"} /\ NumGuards = 0) =>
                ENABLED (RwPortal_write(t) \/ WPortal_lock(t)))
    /\ [](\A t \in AllThreads :
            (Running /\ pc[t] = "read" /\ NumWriteGuards = 0) =>
                ENABLED RwPortal_read(t))

C13_Witness ==
    /\ last.op = "release_write" /\ last.out = "failing" /\ NumGuards = 0
    /\ kind = "sync_WAnchor"

C15_DerefYieldsCapturedValue ==
    (kind \in ReadOnlyKinds /\ last.op = "deref" /\ anchor = "alive") =>
        (last.val = x /\ x = "Scoped")

C15_Witness ==
    /\ kind \in ReadOnlyKinds /\ last.op = "deref" /\ anchor = "alive"
    /\ portals = 2 /\ weak > 0

\* C16: dropping an rc::Anchor while a strong portal exists blocks the thread
\* for ever: the drop neither returns nor panics, and nothing runs afterwards.
C16_RcAnchorDropBlocks ==
    /\ [][(DropStarts /\ kind = "rc_Anchor" /\ portals > 0) =>
            (anchor' = "deadlocked" /\ pc'[1] = "deadlock" /\ panicking' = panicking)]_vars
    /\ [][(kind = "rc_Anchor") => anchor # "deadlocked"]_vars
    /\ []((kind = "rc_Anchor" /\ pc[1] = "deadlock") => anchor = "deadlocked")

C16_Witness ==
    /\ kind = "rc_Anchor" /\ anchor = "deadlocked" /\ portals > 0 /\ strong = portals + 1

\* C17: dropping an rc::RwAnchor blocks the thread for ever if and only if a
\* guard of its Slot is live; when strong portals exist and no guard is live
\* the drop fails with 'still in use'.
C17_RcRwAnchorDropBlocksIffBorrowed ==
    /\ [][(DropStarts /\ kind = "rc_RwAnchor") =>
            /\ (anchor' = "deadlocked" <=> NumGuards > 0)
            /\ (anchor' = "deadlocked" => pc'[1] = "deadlock" /\ panicking' = panicking)
            /\ ((portals > 0 /\ NumGuards = 0) =>
                    (anchor' = "failed_in_use" /\ last'.out = "in_use"))]_vars
    /\ [][(kind = "rc_RwAnchor") => anchor # "deadlocked"]_vars

C17_Witness ==
    /\ kind = "rc_RwAnchor" /\ anchor = "deadlocked" /\ NumReadGuards = 2

\* C18: dropping a sync::Anchor while a strong portal exists fails with 'still
\* in use' in the same step, whatever the other threads do: the drop is never
\* kept waiting.
C18_SyncAnchorDropFailsAtOnce ==
    /\ [][(DropStarts /\ kind = "sync_Anchor" /\ portals > 0) =>
            (anchor' = "failed_in_use" /\ last'.out = "in_use" /\ pc' = pc
             /\ \E t \in AllThreads : panicking'[t])]_vars
    /\ [](\A t \in AllThreads :
            (kind = "sync_Anchor" /\ anchor = "alive" /\ Running /\ Idle(t)) =>
                ENABLED sync_Anchor_drop(t))
    /\ [](kind = "sync_Anchor" => Waiting = {} /\ anchor \notin {"dropping", "deadlocked"})

C18_Witness ==
    /\ kind = "sync_Anchor" /\ anchor = "failed_in_use" /\ last.out = "in_use"
    /\ portals = 2

\* The anchor still holds its reference to the Slot.
AnchorHoldsSlot == anchor \in {"alive", "dropping", "deadlocked"}
UpgradeOps == {"upgrade", "try_upgrade"}

\* C19 as stated: a weak upgrade succeeds if and only if the anchor has not
\* retired, whether or not the Slot is poisoned (Slots whose anchor's drop
\* failed with 'still in use' left aside).
C19_Original ==
    (last.op \in UpgradeOps /\ anchor # "failed_in_use") =>
        (last.out = "ok" <=> anchor # "retired")

\* C19 amended: a weak upgrade succeeds if and only if the Slot is still
\* allocated, that is the anchor or a strong portal still holds it, whether
\* or not the Slot is poisoned; upgrade() fails with 'Anchor dropped' exactly
\* where try_upgrade() returns nothing.
C19_UpgradeIffSlotAllocated ==
    /\ [][(last'.op \in UpgradeOps) =>
            /\ (last'.out = "ok" <=> strong # 0)
            /\ (last'.out = "ok" => strong' = strong + 1 /\ portals' = portals + 1)
            /\ (last'.out # "ok" =>
                    last'.out = (IF last'.op = "upgrade" THEN "dropped" ELSE "none"))
            /\ poisoned' = poisoned]_vars
    /\ [](strong # 0 <=> (AnchorHoldsSlot \/ portals > 0))

C19_Witness ==
    /\ last.op = "upgrade" /\ last.out = "ok" /\ poisoned /\ anchor = "alive"
    /\ portals = 1

C21_StrongCountAccounting ==
    /\ [](strong = portals + (IF AnchorHoldsSlot THEN 1 ELSE 0))
    /\ [][/\ portals' \in {portals - 1, portals, portals + 1}
          /\ (AnchorHoldsSlot' = AnchorHoldsSlot => strong' - strong = portals' - portals)
          /\ (weak' # weak => (strong' = strong /\ portals' = portals))]_vars

C21_Witness ==
    /\ strong = 3 /\ portals = 2 /\ weak = 2 /\ last.op = "try_upgrade"

\* C22: retired is terminal: once the anchor has retired the Slot stays
\* retired, without any strong reference, and every later try_upgrade()
\* returns nothing.
C22_RetiredIsTerminal ==
    /\ [][anchor = "retired" =>
            (anchor' = "retired" /\ strong' = 0 /\ portals' = 0 /\ guards' = guards)]_vars
    /\ [][(anchor = "retired" /\ last'.op = "try_upgrade") => last'.out = "none"]_vars

C22_Witness ==
    /\ anchor = "retired" /\ last.op = "try_upgrade" /\ last.out = "none"
    /\ weak = 2 /\ kind \in MutableKinds

\* C23: poisoning is permanent: no step clears the poison flag, and only a
\* mutable Slot is ever poisoned.
C23_PoisonedForGood ==
    /\ [][poisoned => poisoned']_vars
    /\ [](poisoned => kind \in MutableKinds)

C23_Witness ==
    /\ poisoned /\ anchor = "failed_in_use" /\ last.op = "try_upgrade"
    /\ last.out = "ok"

\* C24: the drop of a sync::RwAnchor or sync::WAnchor with a strong portal
\* raises 'still in use' only when no guard is live, having waited for the
\* lock, and the Slot is poisoned when the failure is raised.
C24_DropWaitsThenPoisons ==
    [][(kind \in {"sync_RwAnchor", "sync_WAnchor"}
        /\ last'.op = "anchor_drop" /\ last'.out = "in_use") =>
            (anchor = "dropping" /\ NumGuards = 0 /\ NumGuards' = 0 /\ poisoned')]_vars

\* A call of thread t waits for the lock.
Blocked(t) == pc[t] \in {"read", "write", "lock", "drop"}
\* A thread that holds a guard is itself waiting for the lock.
HolderBlocked == \E k \in GuardKeys : BagIn(k, guards) /\ Blocked(k.t)

C26_NoRetireUnderWriteGuard ==
    /\ [][(anchor # "retired" /\ anchor' = "retired") =>
            (NumWriteGuards = 0 /\ NumWriteGuards' = 0)]_vars
    /\ [][(last'.op = "guard_deref_mut" /\ last'.out = "ok" /\ last' # last) =>
            (anchor # "retired" /\ anchor' # "retired")]_vars

C26_Witness ==
    /\ anchor = "retired" /\ kind = "lib_WAnchor" /\ x = "Replacement"
    /\ last.op = "anchor_drop" /\ last.out = "ok" /\ portals > 0

\* C27: the release of a write guard whose holder did not fail while it held
\* the guard, in normal execution or in cleanup code that runs while an
\* earlier failure unwinds, leaves the poison flag as it was.
C27_CleanReleaseNeverPoisons ==
    [][(last'.op = "release_write" /\ last'.out \in {"normal", "in_cleanup"}) =>
            poisoned' = poisoned]_vars

\* C28: the release of a read guard, while its holder is failing as in normal
\* execution, takes the guard away and changes nothing else: the poison
\* flag, the anchor, the counts and the captured variable stay as they are.
C28_ReadReleaseNeverPoisons ==
    [][last'.op = "release_read" =>
            /\ poisoned' = poisoned
            /\ NumReadGuards' = NumReadGuards - 1
            /\ NumWriteGuards' = NumWriteGuards
            /\ UNCHANGED <<kind, anchor, strong, weak, portals, x, pc, panicking,
                           aborted>>]_vars

C28_Witness ==
    /\ last.op = "release_read" /\ last.out = "failing" /\ ~poisoned
    /\ kind \in MutableKinds /\ NumGuards = 0 /\ x = "Replacement"

\* C29: whenever a mutable Slot is poisoned, no guard on it is live.
C29_PoisonedHasNoGuard ==
    (kind \in MutableKinds /\ poisoned) => NumGuards = 0

C29_Witness ==
    /\ poisoned /\ kind = "sync_RwAnchor" /\ portals = 2
    /\ last.op = "read" /\ last.out = "poisoned"

\* C30: in the rc module a borrow() or borrow_mut() that fails, on a conflict
\* or on the poison, leaves the guards, the poison flag, the counts, the
\* anchor and the captured variable as they were.
C30_FailedBorrowChangesNothing ==
    [][(last'.op \in {"borrow", "borrow_mut"} /\ last'.out \in {"conflict", "poisoned"}) =>
            /\ guards' = guards
            /\ UNCHANGED <<kind, anchor, strong, weak, portals, poisoned, x, pc, aborted>>]_vars

C30_Witness ==
    /\ kind = "rc_RwAnchor" /\ last.op = "borrow_mut" /\ last.out = "conflict"
    /\ NumReadGuards = 2 /\ ~poisoned /\ strong = 3

\* C31: a crate-root anchor (lib.rs) retires its Slot only when the strong
\* count is one: its drop never empties the contents while a strong portal
\* exists.
C31_LibRetiresOnlyUnshared ==
    [][(anchor = "alive" /\ anchor' = "retired") => (strong = 1 /\ portals = 0)]_vars

\* C32: a guard obtained through a crate-root strong portal never finds the
\* contents absent: no dereference of a guard fails with 'Anchor dropped'.
C32_GuardNeverFindsAbsent ==
    ~(last.op \in {"guard_deref", "guard_deref_mut"} /\ last.out = "dropped")

\* C33: the 'still in use' failure raised by an anchor drop of the sync and rc
\* modules carries exactly the message "Anchor still in use (at least one
\* portal exists)".
C33_StillInUseMessage ==
    (kind \in Kinds /\ last.op = "anchor_drop" /\ last.out = "in_use") =>
        last.val = "Anchor still in use (at least one portal exists)"

\* C34: for the read-only crate-root Anchor the lock is never poisoned,
\* whatever the readers do, so its drop never takes the unreachable!()
\* branch: it ends in success or in 'still in use', and it takes the
\* contents only while they are present.
C34_LibAnchorDropAssertionsHold ==
    /\ [](kind = "lib_Anchor" => ~poisoned)
    /\ [][(kind = "lib_Anchor" /\ last'.op = "anchor_drop" /\ last' # last) =>
            /\ anchor = "alive"
            /\ last'.out \in {"ok", "in_use"}
            /\ (last'.out = "ok") = (anchor' = "retired")]_vars

C34_Witness ==
    /\ kind = "lib_Anchor" /\ anchor = "alive" /\ NumGuards = 0 /\ ~poisoned
    /\ last.op = "release_read" /\ last.out = "failing"
    /\ ENABLED (\E t \in LibThreads : lib_LockAnchor_drop(t) /\ anchor' = "retired")

====
